---- MODULE Spec2Model ----
(***************************************************************************)
(* A model of romcomma's multi-output Gaussian likelihood                  *)
(* (gpf/likelihoods.py), its Gaussian density core (gsa/base.py) and its   *)
(* sampling utilities (test/sampling.py).                                  *)
(*                                                                         *)
(* A tensor is a record [shape, flat]: shape is the sequence of axis       *)
(* lengths, flat the row-major sequence of its elements. Indices are       *)
(* 0-based tuples, as in the source.                                       *)
(***************************************************************************)
EXTENDS Integers, Sequences, FiniteSets, TLC

\* ------------------------------------------------------------------ bounds
MaxL == 2          \* largest latent_dim L of a likelihood
MaxFlat == 6       \* largest axis length of data / F / Y / Fvar given to N, add_to, _log_prob
MaxPRank == 5      \* largest rank of the Fvar given to _predict_mean_and_var
MaxMRank == 3      \* largest rank of the mean / ordinate given to log_pdf
MaxVRank == 8      \* largest rank of the variance_cho given to log_pdf
MaxN == 2          \* largest number of samples asked of a sampler
MaxM == 2          \* largest dimensionality asked of latin_hypercube
MaxSDim == 2       \* largest axis length of the variance given to multivariate_gaussian_noise
MaxSRank == 3      \* largest rank of the variance given to multivariate_gaussian_noise
MaxDraws == 4      \* variates the global generator hands out before it is seeded again
MaxEntropy == 2    \* distinct seeds the operating system may hand a fresh generator

\* ------------------------------------------------------- tensor primitives
RECURSIVE Prod(_)
Prod(s) == IF s = <<>> THEN 1 ELSE Head(s) * Prod(Tail(s))

Min(a, b) == IF a <= b THEN a ELSE b
Max(a, b) == IF a >= b THEN a ELSE b

\* All shapes of rank r whose axis lengths lie in dims.
ShapesOf(r, dims) == [1..r -> dims]
ShapesUpTo(lo, hi, dims) == UNION {ShapesOf(r, dims) : r \in lo..hi}

\* s[a..b] as a sequence, empty when a > b (Python slicing of a shape).
Slice(s, a, b) == [i \in 1..(IF b >= a THEN b - a + 1 ELSE 0) |-> s[a + i - 1]]
DropLast(s, n) == Slice(s, 1, Len(s) - n)             \* s[:-n]
TakeLast(s, n) == Slice(s, Max(1, Len(s) - n + 1), Len(s))   \* s[-n:]

\* Row-major offset (0-based) of the 0-based index tuple idx in a tensor of this shape.
RECURSIVE Ravel(_, _)
Ravel(idx, shape) ==
    IF shape = <<>> THEN 0
    ELSE Ravel(DropLast(idx, 1), DropLast(shape, 1)) * shape[Len(shape)] + idx[Len(idx)]

\* The 0-based index tuple of row-major offset k.
RECURSIVE Unravel(_, _)
Unravel(k, shape) ==
    IF shape = <<>> THEN <<>>
    ELSE Append(Unravel(k \div shape[Len(shape)], DropLast(shape, 1)), k % shape[Len(shape)])

Tensor(shape, f(_)) == [shape |-> shape, flat |-> [k \in 1..Prod(shape) |-> f(Unravel(k - 1, shape))]]
Rank(t) == Len(t.shape)
LastAxisLength(t) == t.shape[Len(t.shape)]
At(t, idx) == t.flat[Ravel(idx, t.shape) + 1]
Indices(shape) == {Unravel(k, shape) : k \in 0..(Prod(shape) - 1)}

\* tf.reshape: the row-major element order is kept; the element counts must agree.
CanReshape(t, shape) == Prod(shape) = Prod(t.shape)
Reshape(t, shape) == [shape |-> shape, flat |-> t.flat]

\* Broadcasting of two shapes, right-aligned: axis lengths agree or one of them is 1.
PadLeft(s, r) == [i \in 1..r |-> IF i <= r - Len(s) THEN 1 ELSE s[i - (r - Len(s))]]
Compatible(s1, s2) ==
    LET r == Max(Len(s1), Len(s2))
        a == PadLeft(s1, r)
        b == PadLeft(s2, r)
    IN \A i \in 1..r : a[i] = b[i] \/ a[i] = 1 \/ b[i] = 1
BroadcastShape(s1, s2) ==
    LET r == Max(Len(s1), Len(s2))
        a == PadLeft(s1, r)
        b == PadLeft(s2, r)
    IN [i \in 1..r |-> IF a[i] = 1 THEN b[i] ELSE a[i]]
\* The index into a tensor of this shape that the broadcast index idx reads.
Project(idx, shape) ==
    [i \in 1..Len(shape) |-> IF shape[i] = 1 THEN 0 ELSE idx[i + (Len(idx) - Len(shape))]]
\* Elementwise op(t1, t2) with broadcasting (shapes must be Compatible).
Elementwise(t1, t2, op(_, _)) ==
    LET bs == BroadcastShape(t1.shape, t2.shape)
    IN Tensor(bs, LAMBDA idx : op(At(t1, Project(idx, t1.shape)), At(t2, Project(idx, t2.shape))))
Plus(a, b) == a + b

\* An outcome: a returned value, or an exception raised at a source line.
Ok(v) == [status |-> "ok", value |-> v, at |-> 0]
Raise(e, line) == [status |-> e, value |-> <<>>, at |-> line]

\* ------------------------------------------------------------------- state
VARIABLES
    latent_dim,   \* MOGaussian.latent_dim, fixed by the constructor
    variance,     \* MOGaussian.variance.value, the (L,L) covariance, fixed by the constructor
    op,           \* the operation whose outcome the caller holds, "idle" between calls
    args,         \* its arguments
    out,          \* its outcome: [status, value]
    rng,          \* numpy's global generator: the variates drawn since it was seeded
    drew          \* the generator state the last sampler call is documented to draw from:
                  \* [global, fresh], 0 for the generator it does not read

vars == <<latent_dim, variance, op, args, out, rng, drew>>
lib == <<latent_dim, variance, rng, drew>>

\* A symmetric, strictly diagonally dominant (hence positive definite) covariance.
Covariance(L, c) == Tensor(<<L, L>>, LAMBDA idx : IF idx[1] = idx[2] THEN L + 1 + idx[1] ELSE c)

\* A data tensor with recognisable elements.
Data(shape, base) == Tensor(shape, LAMBDA idx : base + 10 * Ravel(idx, shape))

Init ==
    /\ \E L \in 1..MaxL, c \in {0, 1} :
          /\ latent_dim = L
          /\ variance = Covariance(L, c)
    /\ op = "idle"
    /\ args = <<>>
    /\ out = Ok(<<>>)
    /\ rng = 0
    /\ drew = [global |-> 0, fresh |-> 0]

\* ------------------------------------------------- MOGaussian (likelihoods.py)

\* int(data.shape[-1] / self.latent_dim): true division, then truncation towards zero.
N(L, data) ==
    IF Rank(data) = 0 THEN Raise("IndexError", 58)
    ELSE Ok(data.shape[Rank(data)] \div L)

\* split_axis_shape with the pair in the other order.
split_axis_shape_swapped(L, data) ==
    LET n == N(L, data)
    IN IF n.status # "ok" THEN n ELSE Ok(<<n.value, L>>)

split_axis_shape(L, data) ==
    LET n == N(L, data)
    IN IF n.status # "ok" THEN n ELSE Ok(<<L, n.value>>)

\* Variance.value_times_eye(N): the (L*N, L*N) block-diagonal replication of the
\* (L,L) covariance, one block per datapoint.
value_times_eye(value, n) ==
    LET L == value.shape[1]
    IN Tensor(<<L * n, L * n>>,
              LAMBDA idx : IF idx[1] \div L = idx[2] \div L
                           THEN At(value, <<idx[1] % L, idx[2] % L>>) ELSE 0)

\* add_to without the rank assertion of line 65.
add_to_unasserted(L, value, Fvar) ==
    LET n == N(L, Fvar)
        noise == value_times_eye(value, n.value)
    IN IF n.status # "ok" THEN n
       ELSE IF ~CanReshape(noise, Fvar.shape) THEN Raise("InvalidArgumentError", 67)
       ELSE Ok(Elementwise(Fvar, Reshape(noise, Fvar.shape), Plus))

add_to(L, value, Fvar) ==
    IF Rank(Fvar) # 2 THEN Raise("InvalidArgumentError", 65)
    ELSE LET noise == value_times_eye(value, N(L, Fvar).value)
         IN IF ~CanReshape(noise, Fvar.shape) THEN Raise("InvalidArgumentError", 67)
            ELSE Ok(Elementwise(Fvar, Reshape(noise, Fvar.shape), Plus))

\* The two tensors _log_prob hands to gpflow's multivariate_normal.
_log_prob(L, F, Y) ==
    LET sy == split_axis_shape(L, Y)
        sf == split_axis_shape(L, F)
    IN IF sy.status # "ok" THEN sy
       ELSE IF ~CanReshape(Y, sy.value) THEN Raise("InvalidArgumentError", 70)
       ELSE IF sf.status # "ok" THEN sf
       ELSE IF ~CanReshape(F, sf.value) THEN Raise("InvalidArgumentError", 71)
       ELSE Ok([Y |-> Reshape(Y, sy.value), F |-> Reshape(F, sf.value)])

_conditional_variance(L, value, F) ==
    LET n == N(L, F)
    IN IF n.status # "ok" THEN n ELSE Ok(value_times_eye(value, n.value))

\* tf.linalg.diag_part of a tensor of rank >= 2: the main diagonal of each innermost matrix.
diag_part(m) ==
    LET r == Rank(m)
    IN Tensor(DropLast(m.shape, 2) \o <<Min(m.shape[r - 1], m.shape[r])>>,
              LAMBDA idx : At(m, DropLast(idx, 1) \o <<idx[Len(idx)], idx[Len(idx)]>>))

\* The attributes a tf.Tensor has; the message of line 88 reads Fvar.ndims.
TensorAttributes == {"shape", "dtype", "ndim", "name", "device", "op", "graph"}

\* _predict_mean_and_var taking the covariance's first row, not its diagonal, at rank 2.
_predict_mean_and_var_row(L, value, Fmu, Fvar) ==
    LET r == Rank(Fvar)
        lhvar == IF r = 4 THEN Reshape(value, <<1, 1, L, L>>)
                 ELSE IF r = 3 THEN Reshape(value, <<1, L, L>>)
                 ELSE Tensor(<<1, L>>, LAMBDA idx : At(value, <<0, idx[2]>>))
    IN IF r \notin {2, 3, 4} THEN Raise("AttributeError", 88)
       ELSE IF ~Compatible(Fvar.shape, lhvar.shape) THEN Raise("InvalidArgumentError", 89)
       ELSE Ok([mean |-> Fmu, var |-> Elementwise(Fvar, lhvar, Plus)])

_predict_mean_and_var(L, value, Fmu, Fvar) ==
    LET r == Rank(Fvar)
        lhvar == IF r = 4 THEN Reshape(value, <<1, 1, L, L>>)
                 ELSE IF r = 3 THEN Reshape(value, <<1, L, L>>)
                 ELSE Reshape(diag_part(value), <<1, L>>)
    IN IF r \notin {2, 3, 4}
       THEN (IF "ndims" \in TensorAttributes THEN Raise("IndexError", 88)
             ELSE Raise("AttributeError", 88))
       ELSE IF ~Compatible(Fvar.shape, lhvar.shape) THEN Raise("InvalidArgumentError", 89)
       ELSE Ok([mean |-> Fmu, var |-> Elementwise(Fvar, lhvar, Plus)])

\* ------------------------------------------- GaussianWithout2Pi (gsa/base.py)

\* An exception of log_pdf, with the locals assigned before it.
RaiseIn(e, line, locals) == [status |-> e, value |-> locals, at |-> line]

\* Lines 75-80: the centred ordinate, ordinate - mean, each entry named by the pair
\* (element of ordinate, element of mean) it is the difference of.
Minus(a, b) == <<a, b>>
\* centre with the two reshapes of lines 78-79 exchanged.
centre_exchanged(ordinate, mean) ==
    LET shape == ordinate.shape
        fill == [i \in 1..(Len(shape) - 1) |-> 1]
        same == ordinate.shape = mean.shape
        o == IF same THEN Reshape(ordinate, fill \o shape) ELSE ordinate
        m == IF same THEN Reshape(mean, DropLast(shape, 1) \o fill \o TakeLast(shape, 1))
             ELSE mean
    IN IF same /\ shape = <<>> THEN Raise("IndexError", 78)
       ELSE IF ~Compatible(o.shape, m.shape) THEN Raise("InvalidArgumentError", 80)
       ELSE Ok(Elementwise(o, m, Minus))

centre(ordinate, mean) ==
    LET shape == ordinate.shape
        fill == [i \in 1..(Len(shape) - 1) |-> 1]
        same == ordinate.shape = mean.shape
        o == IF same THEN Reshape(ordinate, DropLast(shape, 1) \o fill \o TakeLast(shape, 1))
             ELSE ordinate
        m == IF same THEN Reshape(mean, fill \o shape) ELSE mean
    IN IF same /\ shape = <<>> THEN Raise("IndexError", 78)
       ELSE IF ~Compatible(o.shape, m.shape) THEN Raise("InvalidArgumentError", 80)
       ELSE Ok(Elementwise(o, m, Minus))

\* Lines 82-83: the rank of variance_cho beyond its matrix axes, rounded down to a
\* multiple of LBunch.
\* insertions without the rounding of line 83.
insertions_unrounded(rank, is_variance_diagonal, LBunch) ==
    rank - (IF is_variance_diagonal THEN 1 ELSE 2)

insertions(rank, is_variance_diagonal, LBunch) ==
    LET e == rank - (IF is_variance_diagonal THEN 1 ELSE 2)
    IN e - (e % LBunch)

\* tf.expand_dims: one axis of length 1 inserted at position axis (0-based).
expand_dims(t, axis) ==
    Reshape(t, Slice(t.shape, 1, axis) \o <<1>> \o Slice(t.shape, axis + 1, Rank(t)))

\* Lines 84-85: for axis in range(insertions, 0, -LBunch).
RECURSIVE expand_loop(_, _, _)
expand_loop(variance_cho, axis, LBunch) ==
    IF axis <= 0 THEN variance_cho
    ELSE expand_loop(expand_dims(variance_cho, axis), axis - LBunch, LBunch)

\* tf.broadcast_to(t, target): each axis of t, right-aligned, is 1 or the target's.
CanBroadcastTo(shape, target) ==
    /\ Len(target) >= Len(shape)
    /\ \A i \in 1..Len(shape) :
          shape[i] = 1 \/ shape[i] = target[i + (Len(target) - Len(shape))]

\* Lines 87-91: the shape of the exponent.
exponent(ordinate, variance_cho, is_variance_diagonal) ==
    IF is_variance_diagonal
    THEN LET target == DropLast(variance_cho.shape, 2) \o TakeLast(ordinate.shape, 2)
         IN IF ~CanBroadcastTo(variance_cho.shape, target) THEN Raise("InvalidArgumentError", 88)
            ELSE IF ~Compatible(ordinate.shape, target) THEN Raise("InvalidArgumentError", 88)
            ELSE IF BroadcastShape(ordinate.shape, target) = <<>> THEN Raise("InvalidArgumentError", 91)
            ELSE Ok(DropLast(BroadcastShape(ordinate.shape, target), 1))
    ELSE LET vs == variance_cho.shape
             rhs == ordinate.shape \o <<1>>
         IN IF \/ Len(vs) < 2
               \/ Len(rhs) < 2
               \/ vs[Len(vs)] # vs[Len(vs) - 1]
               \/ rhs[Len(rhs) - 1] # vs[Len(vs)]
               \/ ~Compatible(DropLast(vs, 2), DropLast(rhs, 2))
            THEN Raise("InvalidArgumentError", 90)
            ELSE Ok(BroadcastShape(DropLast(vs, 2), DropLast(rhs, 2)))

log_pdf(mean, variance_cho, is_variance_diagonal, ordinate, LBunch) ==
    LET c == centre(ordinate, mean)
        v == expand_loop(variance_cho,
                         insertions(Rank(variance_cho), is_variance_diagonal, LBunch), LBunch)
        x == exponent(c.value, v, is_variance_diagonal)
    IN IF c.status # "ok" THEN c
       ELSE IF x.status # "ok"
            THEN RaiseIn(x.status, x.at, [ordinate |-> c.value, variance_cho |-> v])
       ELSE IF Rank(v) < 2
            THEN RaiseIn("InvalidArgumentError", 92,
                         [ordinate |-> c.value, variance_cho |-> v, exponent |-> x.value])
       ELSE Ok([ordinate |-> c.value, variance_cho |-> v, exponent |-> x.value,
                diagonal |-> diag_part(v)])

\* GaussianWithout2Pi.det: the product along the last axis.
det(variance_cho_diagonal) ==
    Tensor(DropLast(variance_cho_diagonal.shape, 1),
           LAMBDA idx : Prod([l \in 1..LastAxisLength(variance_cho_diagonal) |->
                                 At(variance_cho_diagonal, idx \o <<l - 1>>)]))

\* ------------------------------------------------------------ the calls
FlatShapes(lo, hi) == ShapesUpTo(lo, hi, 1..MaxFlat)

\* The Fmu that accompanies an Fvar: one value per variance (rank 2), or per
\* covariance matrix (ranks 3, 4).
FmuFor(shape) == IF Len(shape) \in {3, 4} THEN Data(DropLast(shape, 1), 7) ELSE Data(shape, 7)

CallN ==
    \E s \in FlatShapes(1, 2) :
        /\ op = "idle"
        /\ op' = "N"
        /\ args' = [data |-> Data(s, 100)]
        /\ out' = N(latent_dim, args'.data)
        /\ UNCHANGED lib

CallSplitAxisShape ==
    \E s \in FlatShapes(1, 2) :
        /\ op = "idle"
        /\ op' = "split_axis_shape"
        /\ args' = [data |-> Data(s, 100)]
        /\ out' = split_axis_shape(latent_dim, args'.data)
        /\ UNCHANGED lib

CallAddTo ==
    \E s \in FlatShapes(1, 3) :
        /\ op = "idle"
        /\ op' = "add_to"
        /\ args' = [Fvar |-> Data(s, 100)]
        /\ out' = add_to(latent_dim, variance, args'.Fvar)
        /\ UNCHANGED lib

CallLogProb ==
    \E s \in FlatShapes(1, 1) :
        /\ op = "idle"
        /\ op' = "_log_prob"
        /\ args' = [F |-> Data(s, 100), Y |-> Data(s, 500)]
        /\ out' = _log_prob(latent_dim, args'.F, args'.Y)
        /\ UNCHANGED lib

CallConditionalVariance ==
    \E s \in FlatShapes(1, 2) :
        /\ op = "idle"
        /\ op' = "_conditional_variance"
        /\ args' = [F |-> Data(s, 100)]
        /\ out' = _conditional_variance(latent_dim, variance, args'.F)
        /\ UNCHANGED lib

\* The Fvar given to _predict_mean_and_var: every shape of a rank up to 4 with axes up
\* to the largest L, and shapes of the ranks beyond with all axes of one length.
PredictShapes ==
    ShapesUpTo(0, 4, 1..MaxL) \cup {[i \in 1..r |-> d] : r \in 5..MaxPRank, d \in {1, 2}}

CallPredictMeanAndVar ==
    \E s \in PredictShapes :
        /\ op = "idle"
        /\ op' = "_predict_mean_and_var"
        /\ args' = [Fmu |-> FmuFor(s), Fvar |-> Data(s, 100)]
        /\ out' = _predict_mean_and_var(latent_dim, variance, args'.Fmu, args'.Fvar)
        /\ UNCHANGED lib

\* The tensors given to log_pdf: elements named by their row-major offset.
Named(shape, base) == Tensor(shape, LAMBDA idx : base + Ravel(idx, shape))

MShapes == ShapesUpTo(1, MaxMRank, {1, 2})
\* Factors of every rank up to MaxVRank, all axes of one length.
VShapes == {[i \in 1..r |-> d] : r \in 1..MaxVRank, d \in {1, 2}}
\* The factors tried with a mean of shape m: a vector and a matrix fitting its last
\* axis, a matrix that does not fit, and a batch of vectors.
VFor(m) ==
    LET L == m[Len(m)]
    IN {<<L>>, <<L, L>>, <<L + 1, L + 1>>, <<L + 1, L>>}
LogPdfShapes ==
    UNION {{<<m, v>> : v \in VFor(m)} : m \in MShapes}
    \cup ({<<2>>, <<2, 2>>, <<1, 2>>} \X VShapes)
LBunches == {2, 3}

CallLogPdf ==
    \E mv \in LogPdfShapes, d \in BOOLEAN, b \in LBunches, o \in {"same", "row", "default"} :
        /\ op = "idle"
        /\ op' = "log_pdf"
        /\ args' = [mean |-> Named(mv[1], 0),
                    variance_cho |-> Named(mv[2], 2),
                    is_variance_diagonal |-> d,
                    ordinate |-> IF o = "same" THEN Named(mv[1], 0)
                                 ELSE IF o = "row" THEN Named(TakeLast(mv[1], 1), 0)
                                 ELSE Named(<<>>, 0),
                    LBunch |-> b]
        /\ out' = log_pdf(args'.mean, args'.variance_cho, args'.is_variance_diagonal,
                          args'.ordinate, args'.LBunch)
        /\ UNCHANGED lib

CallDet ==
    \E s \in ShapesUpTo(1, 2, {1, 2, 3}) :
        /\ op = "idle"
        /\ op' = "det"
        /\ args' = [variance_cho_diagonal |-> Named(s, 2)]
        /\ out' = Ok(det(args'.variance_cho_diagonal))
        /\ UNCHANGED lib

\* The caller takes the outcome; the library holds nothing between calls.
Return ==
    /\ op # "idle"
    /\ op' = "idle"
    /\ args' = <<>>
    /\ out' = Ok(<<>>)
    /\ UNCHANGED lib

Next ==
    \/ Return
    \/ CallN
    \/ CallSplitAxisShape
    \/ CallAddTo
    \/ CallLogProb
    \/ CallConditionalVariance
    \/ CallPredictMeanAndVar

Spec == Init /\ [][Next]_vars

\* The density core is static: its calls need no likelihood, and one stands by.
InitGsa == Init /\ latent_dim = 1

NextGsa ==
    \/ Return
    \/ CallLogPdf
    \/ CallDet

SpecGsa == InitGsa /\ [][NextGsa]_vars

\* ------------------------------------------------------ sampling (sampling.py)

\* The generator each sampler draws from, given the global generator's state and the
\* entropy a fresh generator would be seeded with. scipy's LatinHypercube(M, centered)
\* is built without a seed, so it seeds a generator of its own; multivariate_normal.rvs
\* without random_state uses numpy's global generator.
LatinHypercubeGenerator(global, fresh) == [fresh |-> fresh]
NoiseGeneratorFresh(global, fresh) == [fresh |-> fresh]
NoiseGenerator(global, fresh) == [global |-> global]

\* The k-th variate (k = 0, 1, ...) a generator hands out, by name.
Variate(g, k) == IF "global" \in DOMAIN g THEN <<"global", g.global + k>> ELSE <<"fresh", g.fresh, k>>

\* LatinHypercube.random(N): sample n of column m lies in stratum perm_m(n) of the N
\* strata, perm_m a permutation the generator decides, at the cell's midpoint when
\* centred and at an offset the generator decides otherwise.
latin_hypercube(n, M, is_centered, g) ==
    Ok(Tensor(<<n, M>>,
              LAMBDA idx : [stratum |-> (idx[1] + g.fresh * (idx[2] + 1)) % n,
                            offset |-> IF is_centered THEN "midpoint"
                                       ELSE Variate(g, idx[1] * M + idx[2])]))

\* np.atleast_2d on a shape.
atleast_2d(shape) ==
    IF Len(shape) = 0 THEN <<1, 1>> ELSE IF Len(shape) = 1 THEN <<1>> \o shape ELSE shape

\* noise_covariance with the test of line 56 joined by "and".
noise_covariance_and(shape) ==
    LET v == atleast_2d(shape)
    IN IF v[1] = 1 /\ Len(v) = 2 THEN Ok(<<Prod(v), Prod(v)>>)
       ELSE IF v[1] # v[2] /\ Len(v) > 2 THEN Raise("IndexError", 57)
       ELSE Ok(v)

\* The covariance multivariate_gaussian_noise samples from (its shape), or the IndexError
\* of line 57.
noise_covariance(shape) ==
    LET v == atleast_2d(shape)
    IN IF v[1] = 1 /\ Len(v) = 2 THEN Ok(<<Prod(v), Prod(v)>>)
       ELSE IF v[1] # v[2] \/ Len(v) > 2 THEN Raise("IndexError", 57)
       ELSE Ok(v)

\* The (N, L) matrix of draws, each named by the variate it is made from.
multivariate_gaussian_noise(n, variance_arg, g) ==
    LET cov == noise_covariance(variance_arg.shape)
    IN IF cov.status # "ok" THEN cov
       ELSE Ok(Tensor(<<n, cov.value[2]>>, LAMBDA idx : Variate(g, idx[1] * cov.value[2] + idx[2])))

\* A sampler may be called again while the caller still holds the outcome of the call
\* before, which is what lets two invocations be compared.
CallLatinHypercube ==
    \E n \in 1..MaxN, m \in 1..MaxM, c \in BOOLEAN, e \in 0..(MaxEntropy - 1) :
        /\ op' = "latin_hypercube"
        /\ args' = [samples |-> n, M |-> m, is_centered |-> c]
        /\ out' = latin_hypercube(n, m, c, LatinHypercubeGenerator(rng, e))
        /\ drew' = [global |-> 0, fresh |-> e]
        /\ UNCHANGED <<latent_dim, variance, rng>>

\* The variances given to multivariate_gaussian_noise: every shape of rank up to 2, and
\* shapes of the ranks beyond with all axes of one length.
VarianceShapes ==
    ShapesUpTo(0, 2, 1..MaxSDim) \cup {[i \in 1..r |-> d] : r \in 3..MaxSRank, d \in {1, 2}}

CallMultivariateGaussianNoise ==
    \E n \in 1..MaxN, s \in VarianceShapes, e \in 0..(MaxEntropy - 1) :
        /\ op' = "multivariate_gaussian_noise"
        /\ args' = [samples |-> n, variance |-> Named(s, 2)]
        /\ out' = multivariate_gaussian_noise(n, args'.variance, NoiseGenerator(rng, e))
        /\ drew' = [global |-> rng, fresh |-> 0]
        /\ rng' = IF out'.status = "ok" THEN rng + Prod(out'.value.shape) ELSE rng
        /\ rng' <= MaxDraws
        /\ UNCHANGED <<latent_dim, variance>>

\* np.random.seed: the caller puts the global generator back to its seeded state.
Reseed ==
    /\ rng # 0
    /\ rng' = 0
    /\ UNCHANGED <<latent_dim, variance, op, args, out, drew>>

NextSampling ==
    \/ CallLatinHypercube
    \/ CallMultivariateGaussianNoise
    \/ Reseed

\* The samplers are module functions: their calls need no likelihood, and one stands by.
InitSampling == Init /\ latent_dim = 1

SpecSampling == InitSampling /\ [][NextSampling]_vars

\* ------------------------------------------------------------------ claims

\* C1 (as stated): N returns K / L when L divides the last-axis length K, and fails,
\* returning nothing, when it does not; _conditional_variance then never proceeds
\* with a rounded N.
C1_NFailsUnlessDivisible ==
    /\ op = "N" =>
          IF LastAxisLength(args.data) % latent_dim = 0
          THEN out = Ok(LastAxisLength(args.data) \div latent_dim)
          ELSE out.status # "ok"
    /\ (op = "_conditional_variance" /\ LastAxisLength(args.F) % latent_dim # 0) => out.status # "ok"

\* C2 (as stated): an Fvar whose rank is not 2, 3 or 4 makes _predict_mean_and_var
\* raise IndexError, and no other error.
C2_RankRejectionRaisesIndexError ==
    (op = "_predict_mean_and_var" /\ Rank(args.Fvar) \notin {2, 3, 4})
        => out.status = "IndexError"

C5_PredictAddsCovarianceByRank ==
    op = "_predict_mean_and_var" =>
        LET Fvar == args.Fvar
            r == Rank(Fvar)
            L == latent_dim
        IN (/\ r \in {2, 3, 4}
            /\ Fvar.shape[r] = L
            /\ r > 2 => Fvar.shape[r - 1] = L) =>
              /\ out.status = "ok"
              /\ out.value.mean = args.Fmu
              /\ out.value.var.shape = Fvar.shape
              /\ \A idx \in Indices(Fvar.shape) :
                    At(out.value.var, idx) = At(Fvar, idx) +
                       (IF r = 2 THEN At(variance, <<idx[r], idx[r]>>)
                        ELSE At(variance, <<idx[r - 1], idx[r]>>))

C5_Witness ==
    /\ op = "_predict_mean_and_var" /\ out.status = "ok"
    /\ latent_dim = 2 /\ args.Fvar.shape = <<2, 2>>
    /\ At(variance, <<0, 1>>) = 1
    /\ At(out.value.var, <<1, 0>>) = At(args.Fvar, <<1, 0>>) + At(variance, <<0, 0>>)

C8_SameShapeBroadcast ==
    (op = "log_pdf" /\ args.ordinate.shape = args.mean.shape) =>
        LET d == DropLast(args.mean.shape, 1)
            L == LastAxisLength(args.mean)
        IN /\ out.at \notin {78, 80}
           /\ out.value.ordinate.shape = d \o d \o <<L>>
           /\ \A i \in Indices(d), j \in Indices(d), l \in 0..(L - 1) :
                 At(out.value.ordinate, i \o j \o <<l>>)
                    = Minus(At(args.ordinate, i \o <<l>>), At(args.mean, j \o <<l>>))
           /\ (/\ Rank(args.mean) = 2
               /\ ~args.is_variance_diagonal
               /\ args.variance_cho.shape = <<L, L>>) =>
                 /\ out.status = "ok"
                 /\ out.value.exponent = <<args.mean.shape[1], args.mean.shape[1]>>

C8_Witness ==
    /\ op = "log_pdf" /\ out.status = "ok"
    /\ args.ordinate.shape = <<2, 2>> /\ args.mean.shape = <<2, 2>>
    /\ args.variance_cho.shape = <<2, 2>> /\ ~args.is_variance_diagonal
    /\ args.LBunch = 3
    /\ out.value.exponent = <<2, 2>>
    /\ At(out.value.ordinate, <<1, 0, 1>>) = <<3, 1>>

\* The rank of variance_cho beyond its matrix axes, and that rank rounded down.
Excess(a) == Rank(a.variance_cho) - (IF a.is_variance_diagonal THEN 1 ELSE 2)
Rounded(a) == Excess(a) - (Excess(a) % a.LBunch)

\* C9 (as stated): k = e - (e mod LBunch) singleton axes are inserted into variance_cho,
\* whose rank becomes rank + k; none when e < LBunch.
C9_InsertsKAxes ==
    (op = "log_pdf" /\ out.at \notin {78, 80}) =>
        Rank(out.value.variance_cho) =
            Rank(args.variance_cho) + (IF Excess(args) < args.LBunch THEN 0 ELSE Rounded(args))

\* C9 (amended): k / LBunch singleton axes are inserted, one after each of the first
\* k / LBunch groups of LBunch axes, the elements keeping their order; none when
\* e < LBunch.
C9_InsertsOneAxisPerBunch ==
    (op = "log_pdf" /\ out.at \notin {78, 80}) =>
        LET old == args.variance_cho.shape
            new == out.value.variance_cho.shape
            b == args.LBunch
            n == IF Excess(args) < b THEN 0 ELSE Rounded(args) \div b
        IN /\ Len(new) = Len(old) + n
           /\ \A p \in 0..(Len(new) - 1) :
                 new[p + 1] = IF p % (b + 1) = b /\ p \div (b + 1) < n THEN 1
                              ELSE old[p + 1 - Min(n, p \div (b + 1))]
           /\ out.value.variance_cho.flat = args.variance_cho.flat
           /\ Excess(args) < b => out.value.variance_cho = args.variance_cho

C9_Witness ==
    /\ op = "log_pdf" /\ out.status = "ok"
    /\ args.variance_cho.shape = <<2, 2, 2, 2, 2, 2>>
    /\ ~args.is_variance_diagonal /\ args.LBunch = 2
    /\ out.value.variance_cho.shape = <<2, 2, 1, 2, 2, 1, 2, 2>>

\* C10 (as stated): with is_variance_diagonal and variance_cho the vector of the L
\* diagonal entries (or a batch of such vectors), and mean and ordinate that broadcast
\* against it, log_pdf completes and returns all L entries along the last axis.
C10_DiagonalVectorReturned ==
    (/\ op = "log_pdf"
     /\ args.is_variance_diagonal
     /\ Rank(args.variance_cho) \in {1, 2}
     /\ out.at \notin {78, 80, 88, 91}) =>
        /\ out.status = "ok"
        /\ out.value.diagonal = args.variance_cho

C7_SamplersArePure ==
    [][(op' = op /\ args' = args) => out' = out]_vars

\* C7 (amended): two invocations with identical arguments return identical outputs
\* when the generator drawn from is in the identical state: numpy's global generator
\* for multivariate_gaussian_noise, the freshly seeded one for latin_hypercube.
C7_PureGivenGeneratorState ==
    [][(/\ op' = op
        /\ args' = args
        /\ \/ op = "multivariate_gaussian_noise" /\ drew'.global = drew.global
           \/ op = "latin_hypercube" /\ drew'.fresh = drew.fresh) => out' = out]_vars

\* A sampler has returned and the global generator is back in the state it drew from.
C7_Witness ==
    /\ op = "multivariate_gaussian_noise" /\ out.status = "ok"
    /\ args.variance.shape = <<2, 2>>
    /\ drew.global = 0 /\ rng = 0
====
